---- MODULE Spec2Model ----
(***************************************************************************)
(* MoltBridge Python SDK: the typed transport (_request: signing, retry    *)
(* with backoff, status-to-error mapping), the verification flow           *)
(* (verify / _solve_challenge) and registration, for the blocking client   *)
(* (client.py) and the non-blocking client (async_client.py).              *)
(*                                                                         *)
(* pc is the position of the running call: "idle" (no call), "attempt"     *)
(* (inside the retry loop of _request, about to send), "done" (the call    *)
(* returned or raised; result holds the outcome and log holds what the     *)
(* call did).  Spec runs the                                               *)
(* public operations of a session; SpecTransport runs _request itself      *)
(* with any attempt limit; SpecSolver and SpecSigner run _solve_challenge  *)
(* and sign_request on their own; SpecConstruct starts before __init__;    *)
(* SpecScope runs a session inside a with block; SpecConcurrent runs two   *)
(* tasks on one non-blocking client.                                       *)
(***************************************************************************)
EXTENDS Integers, Sequences, FiniteSets, TLC

VARIABLES
    mode,                \* "sync" (MoltBridge) or "async" (AsyncMoltBridge)
    signer,              \* self._signer
    verification_token,  \* self._verification_token
    now,                 \* int(time.time())
    pc,                  \* position of the running call
    op,                  \* the public operation that is running
    call,                \* the locals of the running _request
    log,                 \* requests sent, backoff sleeps and solver runs of the call
    result,              \* what the call returned or raised
    lastVerify,          \* history: what the latest finished verify() said
    lastOutcome,         \* history: what the latest attempt met (failure or response)
    entry_token,         \* history: self._verification_token when the call began
    challenge_reply,     \* history: the reply verify() got to its challenge request
    http_client,         \* self._client: pools created so far, and whether it is open
    scope,               \* the with / async with block around the client
    parked               \* the locals of a second call suspended on the same client

vars == <<mode, signer, verification_token, now, pc, op, call, log, result,
          lastVerify, lastOutcome, entry_token, challenge_reply,
          http_client, scope, parked>>

None == "None"

-----------------------------------------------------------------------------
(* Bounds of the model.                                                    *)

MaxRetries == 5      \* largest attempt limit handed to _request directly
MaxTime == 1         \* the clock runs from 0 to MaxTime
Ceiling == 4         \* stands for the solver's 10_000_000
MaxDifficulty == 2   \* largest difficulty the server issues

-----------------------------------------------------------------------------
(* Module constants of client.py / async_client.py.                        *)

MAX_RETRIES == 3
RETRY_BACKOFF == <<1, 2, 4>>

Min(a, b) == IF a < b THEN a ELSE b

-----------------------------------------------------------------------------
(* Python values.  A dict is a function from keys to values; dict.get is   *)
(* Get.  A JSON document is tagged with whether it is an object, because   *)
(* .get on anything else raises AttributeError.                            *)

EmptyDict == [k \in {} |-> k]

Get(d, k, default) == IF k \in DOMAIN d THEN d[k] ELSE default

JObj(d) == [isobj |-> TRUE, obj |-> d]
JScalar == [isobj |-> FALSE, obj |-> EmptyDict]

\* Request bodies: None, or a dict of JSON-renderable values.
NoneBody == [isnone |-> TRUE, items |-> EmptyDict]
Dict(d) == [isnone |-> FALSE, items |-> d]
EmptyBody == Dict(EmptyDict)

\* Python truthiness of an Optional[dict]: None and {} are falsy.
Truthy(body) == ~body.isnone /\ DOMAIN body.items # {}

PyStr(s) == [py |-> "str", v |-> s]
PyRaw(s) == [py |-> "raw", v |-> s]     \* bool, list: rendered as written

-----------------------------------------------------------------------------
(* errors.py                                                               *)

ErrorClasses == {"MoltBridgeError", "AuthenticationError", "ValidationError",
                 "NotFoundError", "ConflictError", "RateLimitError",
                 "ServiceUnavailableError"}

\* MoltBridgeError.__init__(message, status_code=0, code=None)
MoltBridgeError(cls, message, status_code, code, cause) ==
    [cls |-> cls, message |-> message, status_code |-> status_code,
     code |-> code, cause |-> cause]

\* An exception that is not a MoltBridgeError (httpx, json, builtins).
RawException(cls) == [cls |-> cls]

Typed(e) == e.cls \in ErrorClasses

error_map ==
    [s \in {401, 403, 400, 404, 409, 429, 503} |->
        CASE s = 401 -> "AuthenticationError"
          [] s = 403 -> "AuthenticationError"
          [] s = 400 -> "ValidationError"
          [] s = 404 -> "NotFoundError"
          [] s = 409 -> "ConflictError"
          [] s = 429 -> "RateLimitError"
          [] s = 503 -> "ServiceUnavailableError"]

\* from_response with 403 left out of error_map
from_response_without_403(status_code, body) ==
    IF ~body.isobj THEN RawException("AttributeError")
    ELSE LET error == Get(body.obj, "error", JObj(EmptyDict)) IN
         IF ~error.isobj THEN RawException("AttributeError")
         ELSE LET message == Get(error.obj, "message", "Unknown error")
                  code == Get(error.obj, "code", "UNKNOWN")
                  error_cls == IF status_code = 403 THEN "MoltBridgeError"
                               ELSE Get(error_map, status_code, "MoltBridgeError")
              IN MoltBridgeError(error_cls, message, status_code, code, None)

\* MoltBridgeError.from_response(status_code, body).  body is what
\* response.json() gave (or the synthetic record); body.get and error.get
\* raise AttributeError when the value is no dict.
from_response(status_code, body) ==
    IF ~body.isobj THEN RawException("AttributeError")
    ELSE LET error == Get(body.obj, "error", JObj(EmptyDict)) IN
         IF ~error.isobj THEN RawException("AttributeError")
         ELSE LET message == Get(error.obj, "message", "Unknown error")
                  code == Get(error.obj, "code", "UNKNOWN")
                  error_cls == Get(error_map, status_code, "MoltBridgeError")
              IN MoltBridgeError(error_cls, message, status_code, code, None)

-----------------------------------------------------------------------------
(* auth.py: Ed25519Signer.  A signer is an agent id and a key; hashing     *)
(* and signing are modelled as injective string constructors.              *)

NoSigner == [set |-> FALSE, agent_id |-> None, key |-> None]
Signer(agent_id, key) == [set |-> TRUE, agent_id |-> agent_id, key |-> key]

\* Every key a request body of this SDK uses, in sorted (codepoint) order:
\* json.dumps(..., sort_keys=True).
KeyOrder == <<"a2a_endpoint", "agent_id", "article22_consent", "capabilities",
              "challenge_id", "clusters", "name", "omniscience_acknowledged",
              "platform", "proof_of_work", "pubkey", "tier",
              "verification_token">>

Quote(s) == "\"" \o s \o "\""
Render(x) == IF x.py = "str" THEN Quote(x.v) ELSE x.v

RECURSIVE DumpItems(_, _, _)
DumpItems(d, i, first) ==
    IF i > Len(KeyOrder) THEN ""
    ELSE IF KeyOrder[i] \in DOMAIN d
         THEN (IF first THEN "" ELSE ",") \o Quote(KeyOrder[i]) \o ":"
                  \o Render(d[KeyOrder[i]]) \o DumpItems(d, i + 1, FALSE)
         ELSE DumpItems(d, i + 1, first)

\* json.dumps(body, separators=(",", ":"), sort_keys=True)
json_dumps(d) == "{" \o DumpItems(d, 1, TRUE) \o "}"

sha256_hex(s) == "sha256(" \o s \o ")"
Ed25519Sign(key, message) == "sig<" \o key \o ">(" \o message \o ")"
public_key_b64(s) == "pub<" \o s.key \o ">"

\* Ed25519Signer.seed_hex: the private seed
seed_hex(s) == s.key

\* VerifyKey.verify: the signature is the one the key pair of `pub` gives
\* the message
Ed25519Verify(pub, message, signature, keys) ==
    \E key \in keys : pub = "pub<" \o key \o ">" /\ signature = Ed25519Sign(key, message)

\* a digest that leaves the body out
body_hash_of_nothing(body) == sha256_hex("")

\* sign_request: body_str and body_hash
body_hash(body) ==
    LET body_str == IF Truthy(body) THEN json_dumps(body.items) ELSE ""
    IN sha256_hex(body_str)

\* a signing message that leaves the timestamp out
signed_message_without_timestamp(method, path, body, t) ==
    method \o ":" \o path \o ":" \o body_hash(body)

\* sign_request: the message that is signed, at clock value t
signed_message(method, path, body, t) ==
    LET timestamp == ToString(t)
    IN method \o ":" \o path \o ":" \o timestamp \o ":" \o body_hash(body)

\* sign_request: the encoded signature
request_signature(s, method, path, body, t) ==
    Ed25519Sign(s.key, signed_message(method, path, body, t))

\* Ed25519Signer.sign_request(method, path, body) at clock value t.
sign_request(s, method, path, body, t) ==
    LET timestamp == ToString(t)
        signature == request_signature(s, method, path, body, t)
    IN "MoltBridge-Ed25519 " \o s.agent_id \o ":" \o timestamp \o ":" \o signature

-----------------------------------------------------------------------------
(* What the network and the server can answer to one request.              *)

\* httpx failures of one request.  _request catches ConnectError and
\* ReadTimeout; the other three are TimeoutException subclasses that are
\* neither.
HttpxFailures == {"ConnectError", "ConnectTimeout", "ReadTimeout",
                  "WriteTimeout", "PoolTimeout"}

Statuses == {200, 302, 400, 401, 403, 404, 409, 429, 500, 503}

Tokens == {"tok1", "tok2"}
Nonces == {"a", "b"}

TextResponse(status, text) ==
    [status_code |-> status, isjson |-> FALSE, text |-> text, json |-> JScalar]
JsonResponse(status, j) ==
    [status_code |-> status, isjson |-> TRUE, text |-> "json", json |-> j]

ErrorRecords ==
    { [message |-> "Invalid signature", code |-> "UNAUTHORIZED"],
      [message |-> "Missing field"],
      [code |-> "NOT_FOUND"] }

GenericJson ==
    { JScalar,                                   \* valid JSON, not an object
      JObj([status |-> "healthy"]),              \* an object without "error"
      JObj([error |-> JScalar]) }                \* "error" is a string
    \cup { JObj([error |-> JObj(r)]) : r \in ErrorRecords }

RECURSIVE Rep(_, _)
Rep(s, n) == IF n <= 0 THEN "" ELSE s \o Rep(s, n - 1)

\* Bodies of the verification protocol (POST /verify).
VerifyJson ==
    { JObj([verified |-> TRUE, token |-> t]) : t \in Tokens \cup {""} }
    \cup { JObj([verified |-> TRUE]), JObj([verified |-> FALSE]) }
    \cup { JObj([verified |-> FALSE, token |-> t]) : t \in Tokens }
    \cup { JObj([token |-> t]) : t \in Tokens }
    \cup { JObj([challenge_id |-> "ch1", difficulty |-> d, nonce |-> n]) :
             d \in 0..MaxDifficulty, n \in Nonces }
    \cup { JObj([challenge_id |-> "ch1", difficulty |-> d, nonce |-> n,
                 target_prefix |-> Rep("0", d)]) :
             d \in 0..MaxDifficulty, n \in Nonces }
    \cup UNION { { JObj([challenge_id |-> "ch1", difficulty |-> d, nonce |-> n,
                         challenge_type |-> "sha256", expires_at |-> "later",
                         target_prefix |-> p]) :
                      n \in Nonces, p \in {Rep("0", d), "f"} } :
                  d \in 0..MaxDifficulty }

Responses(path) ==
    { TextResponse(s, "<html>") : s \in Statuses }
    \cup { JsonResponse(s, j) : s \in Statuses, j \in GenericJson }
    \cup (IF path = "/verify"
          THEN { JsonResponse(200, j) : j \in VerifyJson }
          ELSE {})

Outcomes(path) ==
    { [kind |-> "exc", exc |-> e] : e \in HttpxFailures }
    \cup { [kind |-> "response", response |-> r] : r \in Responses(path) }

\* The answers served while two calls are in flight on one client: a
\* connection failure, a 503, and the replies of the verification protocol
\* and of registration that are told apart by the code.
ConcurrentOutcomes(path) ==
    { [kind |-> "exc", exc |-> "ConnectError"],
      [kind |-> "response", response |-> TextResponse(503, "<html>")] }
    \cup { [kind |-> "response", response |-> JsonResponse(200, j)] :
             j \in IF path = "/verify"
                   THEN { JObj([verified |-> TRUE, token |-> t]) : t \in Tokens }
                        \cup { JObj([verified |-> FALSE]),
                               JObj([challenge_id |-> "ch1", difficulty |-> 1,
                                     nonce |-> "a", challenge_type |-> "sha256",
                                     expires_at |-> "later",
                                     target_prefix |-> "0"]) }
                   ELSE { JObj([status |-> "healthy"]) } }

-----------------------------------------------------------------------------
(* _solve_challenge.  hashlib.sha256(...).hexdigest() on the strings the   *)
(* solver hashes is a fixed table of two-character digests; everywhere     *)
(* else sha256_hex above is used.                                          *)

HexOf == <<"0", "7", "f", "a">>
NonceCode(n) == IF n = "a" THEN 1 ELSE 2

\* the digest of nonce + str(counter)
solver_digest(nonce, counter) ==
    HexOf[((2 * NonceCode(nonce) + counter) % 3) + 1]
        \o HexOf[((NonceCode(nonce) + counter) % 4) + 1]

HexStrings ==
    {""} \cup {HexOf[i] : i \in 1..4}
         \cup {HexOf[i] \o HexOf[j] : i \in 1..4, j \in 1..4}

\* str.startswith
startswith(s, prefix) == \E rest \in HexStrings : prefix \o rest = s

\* The while-loop of _solve_challenge from `counter` on.  The blocking
\* client returns counter_str, the non-blocking one returns the whole
\* attempt string f"{nonce}{counter}".  tested counts the digests computed.
RECURSIVE solve_from(_, _, _, _)
solve_from(md, nonce, target, counter) ==
    LET counter_str == ToString(counter)
        attempt == nonce \o counter_str
        digest == solver_digest(nonce, counter)
    IN IF startswith(digest, target)
       THEN [found |-> TRUE,
             proof |-> IF md = "sync" THEN counter_str ELSE attempt,
             tested |-> counter + 1]
       ELSE IF counter + 1 > Ceiling
            THEN [found |-> FALSE, proof |-> None, tested |-> counter + 1]
            ELSE solve_from(md, nonce, target, counter + 1)

\* a solver that starts its search at counter 1
solve_challenge_from_one(md, nonce, target) == solve_from(md, nonce, target, 1)

\* _solve_challenge(challenge): counter = 0, then the loop
solve_challenge(md, nonce, target) == solve_from(md, nonce, target, 0)

-----------------------------------------------------------------------------
(* _request                                                                *)

NoHeaders == [ContentType |-> None, Authorization |-> None]
NoCall == [method |-> None, path |-> None, body |-> NoneBody, auth |-> FALSE,
           retries |-> 0, headers |-> NoHeaders, attempt |-> 0]
NoOp == [name |-> "idle", phase |-> None]
NoOutcome == [kind |-> "none"]

NoResult == [kind |-> "none"]

\* self._client: no pool before __init__ creates one; one open pool after
NoClient == [created |-> 0, open |-> FALSE]
OpenClient == [created |-> 1, open |-> TRUE]

\* no second call on the client
NoTask == [pc |-> "absent", op |-> NoOp, call |-> NoCall, log |-> <<>>,
           result |-> NoResult, lastOutcome |-> NoOutcome, entry_token |-> None,
           challenge_reply |-> JScalar]
Return(v) == [kind |-> "return", value |-> v]
Raise(e) == [kind |-> "raise", error |-> e]

NoAuthMessage(md) ==
    IF md = "sync"
    THEN "Authentication required but no agent_id/signing_key configured. "
         \o "Set MOLTBRIDGE_AGENT_ID and MOLTBRIDGE_SIGNING_KEY environment variables."
    ELSE "Authentication required but no agent_id/signing_key configured."

\* a loop exit that reports a connection failure
RetryExhaustion_as_connection_error ==
    MoltBridgeError("MoltBridgeError", "Unexpected retry exhaustion", 0,
                    "CONNECTION_ERROR", None)

\* the raise after the for loop
RetryExhaustion ==
    MoltBridgeError("MoltBridgeError", "Unexpected retry exhaustion", 0, None, None)

\* _request that signs when it can and never checks for a signer
request_prologue_unchecked(md, sg, t, method, path, body, auth, retries) ==
    IF retries <= 0
    THEN Raise(RetryExhaustion)
    ELSE [kind |-> "request",
          call |-> [method |-> method, path |-> path, body |-> body, auth |-> auth,
                    retries |-> retries, attempt |-> 0,
                    headers |-> [ContentType |-> "application/json",
                                 Authorization |->
                                     IF auth /\ sg.set
                                     THEN sign_request(sg, method, path, body, t)
                                     ELSE None]]]

\* _request that signs whenever the client has a signer
request_prologue_always_signing(md, sg, t, method, path, body, auth, retries) ==
    IF auth /\ ~sg.set
    THEN Raise(MoltBridgeError("MoltBridgeError", NoAuthMessage(md), 0, "NO_AUTH", None))
    ELSE IF retries <= 0
    THEN Raise(RetryExhaustion)
    ELSE [kind |-> "request",
          call |-> [method |-> method, path |-> path, body |-> body, auth |-> auth,
                    retries |-> retries, attempt |-> 0,
                    headers |-> [ContentType |-> "application/json",
                                 Authorization |->
                                     IF sg.set
                                     THEN sign_request(sg, method, path, body, t)
                                     ELSE None]]]

\* _request up to the retry loop: the headers, the signer check, and the
\* loop over range(retries), which is empty for retries <= 0.
request_prologue(md, sg, t, method, path, body, auth, retries) ==
    IF auth /\ ~sg.set
    THEN Raise(MoltBridgeError("MoltBridgeError", NoAuthMessage(md), 0, "NO_AUTH", None))
    ELSE IF retries <= 0
    THEN Raise(RetryExhaustion)
    ELSE [kind |-> "request",
          call |-> [method |-> method, path |-> path, body |-> body, auth |-> auth,
                    retries |-> retries, attempt |-> 0,
                    headers |-> [ContentType |-> "application/json",
                                 Authorization |->
                                     IF auth THEN sign_request(sg, method, path, body, t)
                                     ELSE None]]]

\* the except clause: (httpx.ConnectError, httpx.ReadTimeout)
Caught == {"ConnectError", "ReadTimeout"}

\* a backoff that keeps doubling instead of repeating the last value
backoff_doubling(attempt) == 2 ^ attempt

\* the delay slept after failed attempt number `attempt`
backoff(attempt) == RETRY_BACKOFF[Min(attempt, Len(RETRY_BACKOFF) - 1) + 1]

\* gives up one attempt early
retry_again_early(attempt, retries) == attempt < retries - 2

\* whether a failed attempt is followed by another one
retry_again(attempt, retries) == attempt < retries - 1

\* reports the index of the last attempt instead of the attempt count
ConnectionFailed_last_index(retries, e) ==
    MoltBridgeError("MoltBridgeError",
                    "Connection failed after " \o ToString(retries - 1)
                        \o " attempts: " \o e,
                    0, "CONNECTION_ERROR", e)

ConnectionFailed(retries, e) ==
    MoltBridgeError("MoltBridgeError",
                    "Connection failed after " \o ToString(retries) \o " attempts: " \o e,
                    0, "CONNECTION_ERROR", e)

\* the test that makes a received response an error
is_error_status(status_code) == status_code >= 400

\* a retry loop that also backs off and retries on a 503 response
request_attempt_retry_503(c, out) ==
    IF out.kind = "exc"
    THEN IF out.exc \in Caught
         THEN IF retry_again(c.attempt, c.retries)
              THEN [kind |-> "sleep", secs |-> backoff(c.attempt)]
              ELSE Raise(ConnectionFailed(c.retries, out.exc))
         ELSE Raise(RawException(out.exc))
    ELSE LET response == out.response IN
         IF response.status_code = 503 /\ retry_again(c.attempt, c.retries)
         THEN [kind |-> "sleep", secs |-> backoff(c.attempt)]
         ELSE IF is_error_status(response.status_code)
         THEN LET error_body ==
                      IF response.isjson THEN response.json
                      ELSE JObj([error |-> JObj([message |-> response.text,
                                                 code |-> "UNKNOWN"])])
              IN Raise(from_response(response.status_code, error_body))
         ELSE IF response.isjson THEN Return(response.json)
              ELSE Raise(RawException("JSONDecodeError"))

\* One iteration of the retry loop on call c with outcome out:
\* "sleep" (back off, then the next iteration), "raise" or "return".
request_attempt(c, out) ==
    IF out.kind = "exc"
    THEN IF out.exc \in Caught
         THEN IF retry_again(c.attempt, c.retries)
              THEN [kind |-> "sleep", secs |-> backoff(c.attempt)]
              ELSE Raise(ConnectionFailed(c.retries, out.exc))
         ELSE Raise(RawException(out.exc))
    ELSE LET response == out.response IN
         IF is_error_status(response.status_code)
         THEN LET error_body ==
                      IF response.isjson THEN response.json
                      ELSE JObj([error |-> JObj([message |-> response.text,
                                                 code |-> "UNKNOWN"])])
              IN Raise(from_response(response.status_code, error_body))
         ELSE IF response.isjson THEN Return(response.json)
              ELSE Raise(RawException("JSONDecodeError"))

\* an attempt that signs again, with the clock of the attempt
Sent_resigning(c, out) ==
    [ev |-> "request", method |-> c.method, path |-> c.path,
     json |-> IF Truthy(c.body) THEN c.body ELSE NoneBody,
     headers |-> IF c.auth
                 THEN [c.headers EXCEPT !.Authorization =
                           sign_request(signer, c.method, c.path, c.body, now)]
                 ELSE c.headers,
     outcome |-> IF out.kind = "exc" THEN "failure" ELSE "response"]

\* an attempt that sends every body that is not None: json=body
Sent_any_body(c, out) ==
    [ev |-> "request", method |-> c.method, path |-> c.path,
     json |-> c.body,
     headers |-> c.headers,
     outcome |-> IF out.kind = "exc" THEN "failure" ELSE "response"]

\* an attempt of register() that reads the cached token when it sends
Sent_reading_token_late(c, out) ==
    [ev |-> "request", method |-> c.method, path |-> c.path,
     json |-> IF c.path = "/register"
              THEN [c.body EXCEPT
                       !.items.verification_token = PyStr(verification_token)]
              ELSE IF Truthy(c.body) THEN c.body ELSE NoneBody,
     headers |-> c.headers,
     outcome |-> IF out.kind = "exc" THEN "failure" ELSE "response"]

\* what the attempt puts on the wire: json=body if body else None
Sent(c, out) ==
    [ev |-> "request", method |-> c.method, path |-> c.path,
     json |-> IF Truthy(c.body) THEN c.body ELSE NoneBody,
     headers |-> c.headers,
     outcome |-> IF out.kind = "exc" THEN "failure" ELSE "response"]

Slept(secs) == [ev |-> "sleep", secs |-> secs]

-----------------------------------------------------------------------------
(* verify and register                                                     *)

VerificationResult(verified, token) == [verified |-> verified, token |-> token]

\* the keys verify() reads with challenge_data[...]
ChallengeKeys(md) ==
    IF md = "sync" THEN {"challenge_id", "difficulty", "nonce"}
    ELSE {"challenge_id", "challenge_type", "difficulty", "expires_at",
          "nonce", "target_prefix"}

\* the target prefix the solver is run against
target_prefix(md, d) ==
    IF md = "sync" THEN Rep("0", d.difficulty) ELSE d.target_prefix

ChallengeTimeout ==
    MoltBridgeError("MoltBridgeError", "Challenge solving exceeded 10M iterations",
                    0, "CHALLENGE_TIMEOUT", None)

\* verify() that goes on to the challenge whatever the reply says
verify_challenge_always_solves(md, challenge_data) ==
    IF ~challenge_data.isobj THEN Raise(RawException("AttributeError"))
    ELSE LET d == challenge_data.obj IN
         IF ~(ChallengeKeys(md) \subseteq DOMAIN d)
         THEN Raise(RawException("KeyError"))
         ELSE LET target == target_prefix(md, d)
                  sol == solve_challenge(md, d.nonce, target)
              IN IF ~sol.found THEN Raise(ChallengeTimeout)
                 ELSE [kind |-> "request",
                       solved |-> [ev |-> "solve", nonce |-> d.nonce,
                                   target |-> target, tested |-> sol.tested],
                       body |-> Dict([challenge_id |-> PyStr(d.challenge_id),
                                      proof_of_work |-> PyStr(sol.proof)])]

\* verify() from the reply to the challenge request up to the submission:
\* returns, raises, or goes on with the submission body.
verify_challenge(md, challenge_data) ==
    IF ~challenge_data.isobj THEN Raise(RawException("AttributeError"))
    ELSE LET d == challenge_data.obj IN
         IF Get(d, "verified", FALSE)
         THEN Return(VerificationResult(TRUE, Get(d, "token", None)))
         ELSE IF ~(ChallengeKeys(md) \subseteq DOMAIN d)
              THEN Raise(RawException("KeyError"))
              ELSE LET target == target_prefix(md, d)
                       sol == solve_challenge(md, d.nonce, target)
                   IN IF ~sol.found THEN Raise(ChallengeTimeout)
                      ELSE [kind |-> "request",
                            solved |-> [ev |-> "solve", nonce |-> d.nonce,
                                        target |-> target, tested |-> sol.tested],
                            body |-> Dict([challenge_id |-> PyStr(d.challenge_id),
                                           proof_of_work |-> PyStr(sol.proof)])]

\* the solver runs verify() makes on the reply to the challenge request:
\* none when it returns or raises before _solve_challenge, else one
verify_solved(md, challenge_data) ==
    IF ~challenge_data.isobj THEN <<>>
    ELSE LET d == challenge_data.obj IN
         IF Get(d, "verified", FALSE) \/ ~(ChallengeKeys(md) \subseteq DOMAIN d)
         THEN <<>>
         ELSE LET target == target_prefix(md, d) IN
              << [ev |-> "solve", nonce |-> d.nonce, target |-> target,
                  tested |-> solve_challenge(md, d.nonce, target).tested] >>

\* verify() after the submission returned `submitted`: the token that is
\* cached and the VerificationResult.
verify_submit(submitted, token) ==
    IF ~submitted.isobj
    THEN [token |-> token, result |-> Raise(RawException("AttributeError"))]
    ELSE LET new_token == Get(submitted.obj, "token", None) IN
         [token |-> new_token,
          result |-> Return(VerificationResult(Get(submitted.obj, "verified", FALSE),
                                               new_token))]

\* Python truthiness of Optional[str]
Falsy(x) == x \in {None, ""}

\* register() that checks the signer only
register_precondition_signer_only(sg, token) ==
    IF ~sg.set
    THEN Raise(MoltBridgeError("MoltBridgeError",
                               "Cannot register: no agent_id configured", 0, None, None))
    ELSE NoResult

\* register(): the two checks before the body is built
register_precondition(sg, token) ==
    IF ~sg.set
    THEN Raise(MoltBridgeError("MoltBridgeError",
                               "Cannot register: no agent_id configured", 0, None, None))
    ELSE IF Falsy(token)
    THEN Raise(MoltBridgeError("MoltBridgeError",
                               "Cannot register: call verify() first", 0, None, None))
    ELSE NoResult

\* a register() that sends the seed where the public key belongs
register_body_sending_seed(sg, token) ==
    Dict([agent_id |-> PyStr(sg.agent_id),
          name |-> PyStr(sg.agent_id),
          platform |-> PyStr("custom"),
          pubkey |-> PyStr(seed_hex(sg)),
          capabilities |-> PyRaw("[]"),
          clusters |-> PyRaw("[]"),
          verification_token |-> PyStr(token),
          omniscience_acknowledged |-> PyRaw("true"),
          article22_consent |-> PyRaw("true")])

\* register(): the body, with the default arguments
register_body(sg, token) ==
    Dict([agent_id |-> PyStr(sg.agent_id),
          name |-> PyStr(sg.agent_id),
          platform |-> PyStr("custom"),
          pubkey |-> PyStr(public_key_b64(sg)),
          capabilities |-> PyRaw("[]"),
          clusters |-> PyRaw("[]"),
          verification_token |-> PyStr(token),
          omniscience_acknowledged |-> PyRaw("true"),
          article22_consent |-> PyRaw("true")])

\* What a finished verify() says about the agent: "raised", the token of a
\* VerificationResult(verified=True, token) with a token, or "no_token".
VerifyOutcome(res) ==
    IF res.kind = "raise" THEN "raised"
    ELSE IF res.value.verified /\ ~Falsy(res.value.token) THEN res.value.token
    ELSE "no_token"

-----------------------------------------------------------------------------
(* The state machine.                                                      *)

Init ==
    /\ mode \in {"sync", "async"}
    /\ signer \in {NoSigner, Signer("agent1", "seed1")}
    /\ verification_token = None
    /\ now = 0
    /\ pc = "idle"
    /\ op = NoOp
    /\ call = NoCall
    /\ log = <<>>
    /\ result = NoResult
    /\ lastVerify = None
    /\ lastOutcome = NoOutcome
    /\ entry_token = None
    /\ challenge_reply = JScalar
    /\ http_client = OpenClient
    /\ scope = "none"
    /\ parked = NoTask

\* The call ends with outcome res after the events lg; c holds the
\* arguments of its last _request.
Finish(o, c, res, lg) ==
    /\ pc' = "done"
    /\ op' = o
    /\ call' = c
    /\ log' = lg
    /\ result' = res
    /\ lastVerify' = IF o.name = "verify" THEN VerifyOutcome(res) ELSE lastVerify

\* The call goes on with the retry loop of _request on c.
Proceed(o, c, lg) ==
    /\ pc' = "attempt"
    /\ op' = o
    /\ call' = c
    /\ log' = lg
    /\ result' = NoResult
    /\ UNCHANGED lastVerify

\* Operation o enters _request(method, path, body, auth, retries).
Enter(o, method, path, body, auth, retries, lg) ==
    LET r == request_prologue(mode, signer, now, method, path, body, auth, retries)
        args == [method |-> method, path |-> path, body |-> body, auth |-> auth,
                 retries |-> retries, attempt |-> 0, headers |-> NoHeaders]
    IN IF r.kind = "raise" THEN Finish(o, args, r, lg) ELSE Proceed(o, r.call, lg)

Begin(o, method, path, body, auth, retries) ==
    /\ Enter(o, method, path, body, auth, retries, <<>>)
    /\ lastOutcome' = NoOutcome
    /\ entry_token' = verification_token
    /\ challenge_reply' = JScalar
    /\ UNCHANGED <<http_client, scope, parked>>
    /\ UNCHANGED <<mode, signer, verification_token, now>>

\* health(): _request("GET", "/health", auth=False, retries=1)
health ==
    /\ pc = "idle"
    /\ Begin([name |-> "health", phase |-> None], "GET", "/health", NoneBody,
             FALSE, 1)

\* pricing(): _request("GET", "/payments/pricing", auth=False, retries=1)
pricing ==
    /\ pc = "idle"
    /\ Begin([name |-> "pricing", phase |-> None], "GET", "/payments/pricing",
             NoneBody, FALSE, 1)

\* Operations that go to _request with the default auth=True and the
\* default retries, and hand back the decoded dict.
AuthOps ==
    { [name |-> "update_profile", method |-> "PUT", path |-> "/profile",
       body |-> EmptyBody],
      [name |-> "update_profile", method |-> "PUT", path |-> "/profile",
       body |-> Dict([capabilities |-> PyRaw("[\"NLP\"]")])],
      [name |-> "get_principal", method |-> "GET", path |-> "/principal/profile",
       body |-> NoneBody],
      [name |-> "create_payment_account", method |-> "POST",
       path |-> "/payments/account", body |-> Dict([tier |-> PyStr("standard")])] }

AuthOpNames == {a.name : a \in AuthOps}

auth_op ==
    /\ pc = "idle"
    /\ \E a \in AuthOps :
           Begin([name |-> a.name, phase |-> None], a.method, a.path, a.body,
                 TRUE, MAX_RETRIES)

\* a verify() that forgets the cached token when it starts
verify_resetting ==
    /\ pc = "idle"
    /\ Enter([name |-> "verify", phase |-> "challenge"], "POST", "/verify",
             EmptyBody, FALSE, MAX_RETRIES, <<>>)
    /\ lastOutcome' = NoOutcome
    /\ entry_token' = verification_token
    /\ challenge_reply' = JScalar
    /\ verification_token' = None
    /\ UNCHANGED <<http_client, scope, parked>>
    /\ UNCHANGED <<mode, signer, now>>

\* verify(), step 1: _request("POST", "/verify", body={}, auth=False)
verify ==
    /\ pc = "idle"
    /\ Begin([name |-> "verify", phase |-> "challenge"], "POST", "/verify",
             EmptyBody, FALSE, MAX_RETRIES)

\* register()
register ==
    /\ pc = "idle"
    /\ LET o == [name |-> "register", phase |-> None]
           pre == register_precondition(signer, verification_token)
       IN IF pre.kind = "raise" THEN Finish(o, NoCall, pre, <<>>)
          ELSE Enter(o, "POST", "/register",
                     register_body(signer, verification_token), FALSE,
                     MAX_RETRIES, <<>>)
    /\ lastOutcome' = NoOutcome
    /\ entry_token' = verification_token
    /\ challenge_reply' = JScalar
    /\ UNCHANGED <<http_client, scope, parked>>
    /\ UNCHANGED <<mode, signer, verification_token, now>>

\* A direct transport call _request(method, path, body, auth, retries).
transport ==
    /\ pc = "idle"
    /\ \E body \in {NoneBody, EmptyBody, Dict([tier |-> PyStr("standard")])},
          auth \in BOOLEAN, retries \in (-1)..MaxRetries :
           Begin([name |-> "_request", phase |-> None], "POST",
                 "/payments/account", body, auth, retries)

\* a verify() that suspends with the challenge in hand, before it solves
Continue_awaiting_before_solve(value, lg) ==
    IF op.name = "verify" /\ op.phase = "challenge"
    THEN LET r == verify_challenge(mode, value)
         IN IF r.kind = "request"
            THEN Proceed(op, call, lg) /\ UNCHANGED verification_token
            ELSE Finish(op, call, r, lg \o verify_solved(mode, value))
                 /\ UNCHANGED verification_token
    ELSE IF op.name = "verify" /\ op.phase = "submit"
    THEN LET r == verify_submit(value, verification_token) IN
         Finish(op, call, r.result, lg) /\ verification_token' = r.token
    ELSE Finish(op, call, Return(value), lg) /\ UNCHANGED verification_token

\* what the server and the network answer to the request of this attempt
Served(path) ==
    IF parked = NoTask THEN Outcomes(path) ELSE ConcurrentOutcomes(path)

\* _request returned `value` to operation op: the rest of the operation.
Continue(value, lg) ==
    IF op.name = "verify" /\ op.phase = "challenge"
    THEN LET r == verify_challenge(mode, value)
             solved == lg \o verify_solved(mode, value)
         IN IF r.kind = "request"
            THEN /\ Enter([op EXCEPT !.phase = "submit"], "POST", "/verify", r.body,
                          FALSE, MAX_RETRIES, solved)
                 /\ UNCHANGED verification_token
            ELSE Finish(op, call, r, solved) /\ UNCHANGED verification_token
    ELSE IF op.name = "verify" /\ op.phase = "submit"
    THEN LET r == verify_submit(value, verification_token) IN
         Finish(op, call, r.result, lg) /\ verification_token' = r.token
    ELSE Finish(op, call, Return(value), lg) /\ UNCHANGED verification_token

\* One iteration of the retry loop: the request is sent, the network or
\* the server answers, and the code runs on up to the next request.
attempt ==
    /\ pc = "attempt"
    /\ \E out \in Served(call.path) :
        LET step == request_attempt(call, out)
            lg == Append(log, Sent(call, out))
        IN /\ lastOutcome' = out
           /\ challenge_reply' =
                  IF step.kind = "return" /\ op.name = "verify"
                                          /\ op.phase = "challenge"
                  THEN step.value ELSE challenge_reply
           /\ IF step.kind = "sleep"
              THEN /\ IF call.attempt + 1 < call.retries     \* range(retries)
                      THEN Proceed(op, [call EXCEPT !.attempt = call.attempt + 1],
                                   Append(lg, Slept(step.secs)))
                      ELSE Finish(op, call, Raise(RetryExhaustion),
                                  Append(lg, Slept(step.secs)))
                   /\ UNCHANGED verification_token
              ELSE IF step.kind = "raise"
              THEN Finish(op, call, step, lg) /\ UNCHANGED verification_token
              ELSE Continue(step.value, lg)
    /\ UNCHANGED <<http_client, scope, parked>>
    /\ UNCHANGED <<mode, signer, now, entry_token>>

\* The caller takes the outcome; the client is ready for the next call.
finish ==
    /\ pc = "done"
    /\ pc' = "idle"
    /\ op' = NoOp
    /\ log' = <<>>
    /\ result' = NoResult
    /\ lastOutcome' = NoOutcome
    /\ call' = NoCall
    /\ entry_token' = None
    /\ challenge_reply' = JScalar
    /\ UNCHANGED <<http_client, scope, parked>>
    /\ UNCHANGED <<mode, signer, verification_token, now, lastVerify>>

\* time.time() moves on.
tick ==
    /\ now < MaxTime
    /\ now' = now + 1
    /\ UNCHANGED <<http_client, scope, parked>>
    /\ UNCHANGED <<mode, signer, verification_token, pc, op, call, log, result,
                   lastVerify, lastOutcome, entry_token, challenge_reply>>

\* The public operations of one client session.
Next ==
    \/ health
    \/ pricing
    \/ auth_op
    \/ verify
    \/ register
    \/ attempt
    \/ finish
    \/ tick

Spec == Init /\ [][Next]_vars

\* Direct calls of the transport, with any attempt limit, under a running
\* clock.
NextTransport ==
    \/ transport
    \/ attempt
    \/ finish
    \/ tick

SpecTransport == Init /\ [][NextTransport]_vars

\* _solve_challenge called on its own, on any nonce and target prefix.
solve ==
    /\ pc = "idle"
    /\ \E nonce \in Nonces, target \in HexStrings :
           LET sol == solve_challenge(mode, nonce, target) IN
           Finish([name |-> "_solve_challenge", phase |-> None], NoCall,
                  IF sol.found THEN Return(sol.proof) ELSE Raise(ChallengeTimeout),
                  << [ev |-> "solve", nonce |-> nonce, target |-> target,
                      tested |-> sol.tested] >>)
    /\ lastOutcome' = NoOutcome
    /\ entry_token' = verification_token
    /\ challenge_reply' = JScalar
    /\ UNCHANGED <<http_client, scope, parked>>
    /\ UNCHANGED <<mode, signer, verification_token, now>>

\* Python's `a or b` on Optional[str]
Or(a, b) == IF Falsy(a) THEN b ELSE a

\* seeds bytes.fromhex and SigningKey accept (32 bytes of hex)
ValidSeeds == {"seedA", "seedE"}

\* what SigningKey.generate() can return
FreshKeys == {"fresh1", "fresh2"}

\* an __init__ that reads the environment before its arguments
init_signer_env_first(agent_id, signing_key, env_agent_id, env_signing_key, fresh) ==
    LET agent == Or(env_agent_id, agent_id)
        seed == Or(env_signing_key, signing_key)
    IN IF ~Falsy(agent) /\ ~Falsy(seed)
       THEN IF seed \in ValidSeeds THEN Return(Signer(agent, seed))
            ELSE Raise(RawException("ValueError"))
       ELSE IF ~Falsy(agent) THEN Return(Signer(agent, fresh))
       ELSE Return(NoSigner)

\* __init__: the signer set up from the arguments and the environment
\* (MOLTBRIDGE_AGENT_ID, MOLTBRIDGE_SIGNING_KEY; None when unset); fresh is
\* the key SigningKey.generate() would give.  from_seed raises ValueError
\* on a seed that is not 32 bytes of hex.
init_signer(agent_id, signing_key, env_agent_id, env_signing_key, fresh) ==
    LET agent == Or(agent_id, env_agent_id)
        seed == Or(signing_key, env_signing_key)
    IN IF ~Falsy(agent) /\ ~Falsy(seed)
       THEN IF seed \in ValidSeeds THEN Return(Signer(agent, seed))
            ELSE Raise(RawException("ValueError"))
       ELSE IF ~Falsy(agent) THEN Return(Signer(agent, fresh))
       ELSE Return(NoSigner)

\* an __init__ that creates the pool before it sets up the signer
init_client_first(hc, r) == [created |-> hc.created + 1, open |-> TRUE]

\* __init__, last line: the pool is created once the signer set-up (outcome
\* r) has not raised
init_client(hc, r) ==
    IF r.kind = "return" THEN [created |-> hc.created + 1, open |-> TRUE] ELSE hc

\* close(): self._client.close() / await self._client.aclose()
close(hc) == [hc EXCEPT !.open = FALSE]

\* Before construction: no client yet.
InitConstruct ==
    /\ mode \in {"sync", "async"}
    /\ signer = NoSigner
    /\ verification_token = None
    /\ now = 0
    /\ pc = "new"
    /\ op = NoOp
    /\ call = NoCall
    /\ log = <<>>
    /\ result = NoResult
    /\ lastVerify = None
    /\ lastOutcome = NoOutcome
    /\ entry_token = None
    /\ challenge_reply = JScalar
    /\ http_client = NoClient
    /\ scope = "none"
    /\ parked = NoTask

\* MoltBridge(agent_id=..., signing_key=...) / AsyncMoltBridge(...) under an
\* environment.  A construction that raises leaves no client ("failed").
construct ==
    /\ pc = "new"
    /\ \E agent_id \in {None, "", "agentA"},
          signing_key \in {None, "seedA", "nothex"},
          env_agent_id \in {None, "agentE"},
          env_signing_key \in {None, "seedE"},
          fresh \in FreshKeys :
           LET r == init_signer(agent_id, signing_key, env_agent_id,
                                env_signing_key, fresh)
           IN /\ signer' = IF r.kind = "return" THEN r.value ELSE NoSigner
              /\ pc' = IF r.kind = "return" THEN "done" ELSE "failed"
              /\ http_client' = init_client(http_client, r)
              /\ op' = [name |-> "__init__", phase |-> None]
              /\ result' = IF r.kind = "return" THEN Return(JScalar) ELSE r
              /\ log' = << [ev |-> "init", agent_id |-> agent_id,
                            signing_key |-> signing_key,
                            env_agent_id |-> env_agent_id,
                            env_signing_key |-> env_signing_key] >>
    /\ verification_token' = None
    /\ UNCHANGED <<scope, parked>>
    /\ UNCHANGED <<mode, now, call, lastVerify, lastOutcome, entry_token,
                   challenge_reply>>

\* __enter__ / __aenter__: the with block is entered on the constructed client
enter ==
    /\ pc = "idle"
    /\ scope = "none"
    /\ http_client.open
    /\ scope' = "inside"
    /\ UNCHANGED <<mode, signer, verification_token, now, pc, op, call, log,
                   result, lastVerify, lastOutcome, entry_token, challenge_reply,
                   http_client, parked>>

\* __exit__ / __aexit__: the with block is left, at its end (no call
\* running) or by the exception a call of the body raised; close() runs.
\* Nothing is modelled on a closed client.
exit ==
    /\ scope = "inside"
    /\ pc = "idle" \/ (pc = "done" /\ result.kind = "raise")
    /\ scope' = "left"
    /\ http_client' = close(http_client)
    /\ pc' = "closed"
    /\ UNCHANGED <<mode, signer, verification_token, now, op, call, log,
                   result, lastVerify, lastOutcome, entry_token, challenge_reply,
                   parked>>

\* Construction, then the client used in and out of a with block.
NextScope ==
    \/ construct
    \/ enter
    \/ health
    \/ auth_op
    \/ attempt
    \/ finish
    \/ exit

SpecScope == InitConstruct /\ [][NextScope]_vars

\* Construction, then authenticated and unauthenticated calls on the client.
NextConstruct ==
    \/ construct
    \/ health
    \/ auth_op
    \/ attempt
    \/ finish
    \/ tick

SpecConstruct == InitConstruct /\ [][NextConstruct]_vars

\* the bodies handed to sign_request on its own
SignedBodies ==
    { NoneBody, EmptyBody,
      Dict([tier |-> PyStr("standard")]),
      Dict([tier |-> PyStr("premium")]),
      Dict([capabilities |-> PyRaw("[\"NLP\"]"), tier |-> PyStr("standard")]) }

\* signer.sign_request(method, path, body) called on its own, up to twice
\* in a row; the log keeps each call's arguments, clock and result.
sign ==
    /\ signer.set
    /\ pc = "idle" \/ (pc = "done" /\ op.name = "sign_request")
    /\ Len(log) < 2
    /\ \E method \in {"GET", "POST"}, path \in {"/profile", "/payments/account"},
          body \in SignedBodies :
           LET header == sign_request(signer, method, path, body, now) IN
           Finish([name |-> "sign_request", phase |-> None], NoCall, Return(header),
                  Append(log, [ev |-> "sign", method |-> method, path |-> path,
                               body |-> body, t |-> now, header |-> header,
                               signature |-> request_signature(signer, method, path,
                                                               body, now)]))
    /\ lastOutcome' = NoOutcome
    /\ entry_token' = verification_token
    /\ challenge_reply' = JScalar
    /\ UNCHANGED <<http_client, scope, parked>>
    /\ UNCHANGED <<mode, signer, verification_token, now>>

NextSigner ==
    \/ sign
    \/ finish
    \/ tick

SpecSigner == Init /\ [][NextSigner]_vars

NextSolver ==
    \/ solve
    \/ finish

SpecSolver == Init /\ [][NextSolver]_vars

-----------------------------------------------------------------------------
(* Two calls in flight on one non-blocking client.  A coroutine runs    *)
(* from one await to the next without giving up the event loop; the      *)
(* awaits of the client are the request and the backoff delay of         *)
(* _request.  `parked` holds the locals of the task that is not running; *)
(* the signer and the cached token belong to the client and are shared.  *)

\* the locals of the running task
Running ==
    [pc |-> pc, op |-> op, call |-> call, log |-> log, result |-> result,
     lastOutcome |-> lastOutcome, entry_token |-> entry_token,
     challenge_reply |-> challenge_reply]

\* a task that has issued no call yet
IdleTask == [NoTask EXCEPT !.pc = "idle"]

\* The event loop resumes the other task: the running one is at an await
\* or between two calls.
switch ==
    /\ mode = "async"
    /\ parked.pc # "absent"
    /\ parked' = Running
    /\ pc' = parked.pc
    /\ op' = parked.op
    /\ call' = parked.call
    /\ log' = parked.log
    /\ result' = parked.result
    /\ lastOutcome' = parked.lastOutcome
    /\ entry_token' = parked.entry_token
    /\ challenge_reply' = parked.challenge_reply
    /\ UNCHANGED <<mode, signer, verification_token, now, lastVerify,
                   http_client, scope>>

InitConcurrent ==
    /\ mode = "async"
    /\ signer \in {NoSigner, Signer("agent1", "seed1")}
    /\ verification_token = None
    /\ now = 0
    /\ pc = "idle"
    /\ op = NoOp
    /\ call = NoCall
    /\ log = <<>>
    /\ result = NoResult
    /\ lastVerify = None
    /\ lastOutcome = NoOutcome
    /\ entry_token = None
    /\ challenge_reply = JScalar
    /\ http_client = OpenClient
    /\ scope = "none"
    /\ parked = IdleTask

NextConcurrent ==
    \/ verify
    \/ register
    \/ attempt
    \/ finish
    \/ switch

SpecConcurrent == InitConcurrent /\ [][NextConcurrent]_vars

-----------------------------------------------------------------------------
(* Properties.                                                             *)

\* the requests among the events of a call, in order
Requests(lg) == SelectSeq(lg, LAMBDA e : e.ev = "request")

\* the backoff delays among the events of a call, in order
Delays(lg) == SelectSeq(lg, LAMBDA e : e.ev = "sleep")

\* how many of the first i events are requests
RequestsUpTo(lg, i) == Cardinality({j \in 1..i : lg[j].ev = "request"})

Is2xx(status_code) == status_code >= 200 /\ status_code <= 299

\* C1: an operation that requires auth, on a client without a signer
\* (blocking or non-blocking), fails with MoltBridgeError NO_AUTH and
\* status_code 0, and no request has been sent.
C1_NoAuthConfigured ==
    (op.name \in AuthOpNames /\ ~signer.set) =>
        /\ pc = "done"
        /\ result.kind = "raise"
        /\ result.error.cls = "MoltBridgeError"
        /\ result.error.code = "NO_AUTH"
        /\ result.error.status_code = 0
        /\ log = <<>>

C1_Witness ==
    /\ pc = "done"
    /\ mode = "async"
    /\ op.name = "update_profile"
    /\ ~signer.set
    /\ result.kind = "raise"

\* C2: register() on a client whose cached verification token is unset
\* fails with a MoltBridgeError before any request is sent, whatever
\* operations (failed verify() calls included) came before.
C2_RegisterNeedsToken ==
    (op.name = "register" /\ verification_token = None) =>
        /\ pc = "done"
        /\ result.kind = "raise"
        /\ Typed(result.error)
        /\ log = <<>>

C2_Witness ==
    /\ pc = "done"
    /\ op.name = "register"
    /\ signer.set
    /\ verification_token = None
    /\ lastVerify = "raised"
    /\ result.kind = "raise"

\* C3: after verify() returned verified=true with a token (on either
\* branch), a following register() on a client with a signer passes the
\* token precondition and sends that token as verification_token.
C3_VerifiedThenRegister ==
    (op.name = "register" /\ signer.set /\ lastVerify \in Tokens) =>
        /\ pc = "attempt" \/ Len(Requests(log)) > 0
        /\ pc = "attempt" =>
               call.body.items.verification_token = PyStr(lastVerify)
        /\ \A i \in 1..Len(log) :
               log[i].ev = "request" =>
                   log[i].json.items.verification_token = PyStr(lastVerify)

\* C4: with attempt limit n >= 1, when the first k < n attempts fail with a
\* connection error or read timeout the call goes on to attempt k+1, and
\* when that attempt receives a 2xx response with a JSON payload the call
\* returns that payload after exactly k+1 requests.
C4_RetryThenSuccess ==
    LET rq == Requests(log)
        k == Cardinality({i \in 1..Len(rq) : rq[i].outcome = "failure"})
    IN (pc = "done" /\ op.name = "_request" /\ call.retries >= 1) =>
        /\ (lastOutcome.kind = "exc" /\ lastOutcome.exc \in {"ConnectError", "ReadTimeout"})
               => Len(rq) >= call.retries
        /\ (/\ lastOutcome.kind = "response"
            /\ Is2xx(lastOutcome.response.status_code)
            /\ lastOutcome.response.isjson)
               => /\ result = Return(lastOutcome.response.json)
                  /\ k < call.retries
                  /\ Len(rq) = k + 1
                  /\ rq[Len(rq)].outcome = "response"

C4_Witness ==
    /\ pc = "done"
    /\ op.name = "_request"
    /\ call.retries = 3
    /\ Len(Requests(log)) = 3
    /\ lastOutcome.kind = "response"
    /\ lastOutcome.response.status_code = 200
    /\ result.kind = "return"

\* C5: with attempt limit n >= 1, when every attempt fails with a
\* connection error or read timeout, the call raises MoltBridgeError with
\* code CONNECTION_ERROR and status_code 0, whose message carries n and
\* whose cause is the last failure, after exactly n requests; no call ever
\* sends more than n requests.
C5_RetriesExhausted ==
    LET rq == Requests(log) IN
    /\ (op.name = "_request" /\ call.retries >= 1) => Len(rq) <= call.retries
    /\ (/\ pc = "done" /\ op.name = "_request" /\ call.retries >= 1
        /\ lastOutcome.kind = "exc"
        /\ lastOutcome.exc \in {"ConnectError", "ReadTimeout"}
        /\ \A i \in 1..Len(rq) : rq[i].outcome = "failure")
           => /\ Len(rq) = call.retries
              /\ result.kind = "raise"
              /\ result.error.cls = "MoltBridgeError"
              /\ result.error.code = "CONNECTION_ERROR"
              /\ result.error.status_code = 0
              /\ result.error.cause = lastOutcome.exc
              /\ result.error.message =
                     "Connection failed after " \o ToString(call.retries)
                         \o " attempts: " \o lastOutcome.exc

C5_Witness ==
    /\ pc = "done"
    /\ op.name = "_request"
    /\ call.retries = 3
    /\ Len(Requests(log)) = 3
    /\ lastOutcome.kind = "exc"
    /\ lastOutcome.exc = "ReadTimeout"
    /\ result.kind = "raise"
    /\ result.error.code = "CONNECTION_ERROR"

\* C6: a received response is never retried: once an attempt of a
\* transport call has received a response (of any status, also after
\* earlier connection failures), the call is over, and that request is
\* its last event: no further attempt and no backoff sleep follows.
C6_ResponseNeverRetried ==
    op.name = "_request" =>
        /\ lastOutcome.kind = "response" => pc = "done"
        /\ \A i \in 1..Len(log) :
               (log[i].ev = "request" /\ log[i].outcome = "response")
                   => i = Len(log)

C6_Witness ==
    /\ pc = "done"
    /\ op.name = "_request"
    /\ Len(Requests(log)) = 2
    /\ lastOutcome.kind = "response"
    /\ lastOutcome.response.status_code = 503

\* C7: for every response received with a status code outside 200-299 the
\* transport call raises a typed MoltBridgeError; it never returns a
\* payload and never fails with an untyped exception.
C7_Non2xxRaisesTyped ==
    (/\ pc = "done" /\ op.name = "_request"
     /\ lastOutcome.kind = "response"
     /\ ~Is2xx(lastOutcome.response.status_code))
        => /\ result.kind = "raise"
           /\ Typed(result.error)

\* the error kind the fixed table gives a status
ExpectedKind(status_code) ==
    CASE status_code \in {401, 403} -> "AuthenticationError"
      [] status_code = 400 -> "ValidationError"
      [] status_code = 404 -> "NotFoundError"
      [] status_code = 409 -> "ConflictError"
      [] status_code = 429 -> "RateLimitError"
      [] status_code = 503 -> "ServiceUnavailableError"
      [] OTHER -> "MoltBridgeError"

\* whether the body of response r carries an error record
HasErrorRecord(r) ==
    /\ r.isjson
    /\ r.json.isobj
    /\ "error" \in DOMAIN r.json.obj
    /\ r.json.obj.error.isobj

\* whether from_response can read the body of response r: it is not JSON
\* (the synthetic record is used), or a JSON object whose "error" is absent
\* or a record
ReadableErrorBody(r) ==
    \/ ~r.isjson
    \/ /\ r.json.isobj
       /\ "error" \in DOMAIN r.json.obj => r.json.obj.error.isobj

C9_AllNetworkFailuresRetried ==
    (/\ pc = "done" /\ op.name = "_request" /\ call.retries >= 1
     /\ lastOutcome.kind = "exc")
        => /\ Len(Requests(log)) = call.retries
           /\ result.kind = "raise"
           /\ Typed(result.error)
           /\ result.error.code = "CONNECTION_ERROR"

\* C10: backoff delays follow the schedule [1, 2, 4]: the delay after the
\* i-th failed attempt (i from 0), when another attempt remains, is
\* schedule[min(i, 2)]; every delay stands between a failed request and the
\* next request, never before the first request or after the last, and two
\* successive requests always have a delay between them.
C10_BackoffSchedule ==
    LET schedule == <<1, 2, 4>> IN
    op.name = "_request" =>
        /\ \A p \in 1..Len(log) :
               log[p].ev = "sleep" =>
                   LET i == RequestsUpTo(log, p) - 1 IN
                   /\ p > 1
                   /\ log[p - 1].ev = "request"
                   /\ log[p - 1].outcome = "failure"
                   /\ i + 1 < call.retries
                   /\ log[p].secs = schedule[(IF i < 2 THEN i ELSE 2) + 1]
                   /\ IF p < Len(log) THEN log[p + 1].ev = "request"
                      ELSE pc = "attempt"
        /\ \A p \in 1..(Len(log) - 1) :
               log[p].ev = "request" => log[p + 1].ev = "sleep"
        /\ (pc = "attempt" /\ log # <<>>) => log[Len(log)].ev = "sleep"

C10_Witness ==
    /\ op.name = "_request"
    /\ Len(Delays(log)) = 4
    /\ Delays(log)[3].secs = 4
    /\ Delays(log)[4].secs = 4

\* the solver runs among the events of a call, in order
Solves(lg) == SelectSeq(lg, LAMBDA e : e.ev = "solve")

\* the requests of a call that received a response
Answered(lg) == SelectSeq(Requests(lg), LAMBDA e : e.outcome = "response")

\* whether outcome out is a reply (below 400, a JSON object) whose
\* "verified" field is true
ReportsVerified(out) ==
    /\ out.kind = "response"
    /\ out.response.status_code < 400
    /\ out.response.isjson
    /\ out.response.json.isobj
    /\ "verified" \in DOMAIN out.response.json.obj
    /\ out.response.json.obj.verified

\* C11: when the reply to the challenge request of verify() reports
\* already-verified, verify() returns VerificationResult(verified=True)
\* carrying the token of that reply (None when the reply has none); that
\* reply is the only response the call received (any earlier requests are
\* failed attempts of the same request), the solver did not run and no
\* request carrying a proof was sent.
C11_AlreadyVerifiedShortcut ==
    (/\ pc = "done" /\ op.name = "verify" /\ op.phase = "challenge"
     /\ ReportsVerified(lastOutcome))
        => LET reply == lastOutcome.response.json.obj IN
           /\ result = Return(VerificationResult(TRUE, Get(reply, "token", None)))
           /\ Len(Answered(log)) = 1
           /\ Solves(log) = <<>>
           /\ \A i \in 1..Len(log) :
                  /\ log[i].ev \in {"request", "sleep"}
                  /\ log[i].ev = "request" =>
                         /\ log[i].json = NoneBody
                         /\ (i < Len(log) => log[i].outcome = "failure")

C11_Witness ==
    /\ pc = "done"
    /\ op.name = "verify"
    /\ op.phase = "challenge"
    /\ ReportsVerified(lastOutcome)
    /\ Len(log) = 1
    /\ result.kind = "return"
    /\ result.value.token = "tok1"

\* whether reply j issues a challenge: a JSON object that does not report
\* verified and carries challenge_id, difficulty and nonce
IssuesChallenge(j) ==
    /\ j.isobj
    /\ ~Get(j.obj, "verified", FALSE)
    /\ {"challenge_id", "difficulty", "nonce"} \subseteq DOMAIN j.obj

\* the target prefix of an issued challenge: its target_prefix, or
\* `difficulty` zeros when the challenge names none
IssuedTarget(d) ==
    IF "target_prefix" \in DOMAIN d THEN d.target_prefix ELSE Rep("0", d.difficulty)

\* the position of the first solver run among the events lg (0 if none)
SolvedAt(lg) ==
    IF \E i \in 1..Len(lg) : lg[i].ev = "solve"
    THEN CHOOSE i \in 1..Len(lg) :
             lg[i].ev = "solve" /\ \A j \in 1..(i - 1) : lg[j].ev # "solve"
    ELSE 0

\* C12: when the reply to the challenge request issues a challenge,
\* verify() has run, in this order and once each, the challenge request
\* with an empty body (one answered request, after its failed attempts),
\* the solver on the issued nonce and target prefix, and, unless the solver
\* gave up, the submission carrying the issued challenge_id and the
\* solver's proof; the cached token keeps its value until the submission
\* is answered, and then the verify() that returns hands back the token it
\* cached.
C12_ChallengeSolveSubmit ==
    (op.name = "verify" /\ IssuesChallenge(challenge_reply)) =>
        LET d == challenge_reply.obj
            s == SolvedAt(log)
            sol == solve_challenge(mode, d.nonce, IssuedTarget(d))
        IN /\ s > 0
           /\ Len(Solves(log)) = 1
           /\ log[s].nonce = d.nonce
           /\ log[s].target = IssuedTarget(d)
           /\ Len(Answered(SubSeq(log, 1, s - 1))) = 1
           /\ log[s - 1].ev = "request" /\ log[s - 1].outcome = "response"
           /\ \A i \in 1..(s - 1) :
                  log[i].ev = "request" => log[i].json = NoneBody
           /\ \A i \in (s + 1)..Len(log) :
                  log[i].ev = "request" =>
                      /\ log[i].json = Dict([challenge_id |-> PyStr(d.challenge_id),
                                             proof_of_work |-> PyStr(sol.proof)])
                      /\ (log[i].outcome = "response" => i = Len(log))
           /\ IF sol.found
              THEN op.phase = "submit"
              ELSE pc = "done" /\ result = Raise(ChallengeTimeout)
           /\ (pc = "attempt" \/ result.kind = "raise")
                  => verification_token = entry_token
           /\ (pc = "done" /\ result.kind = "return")
                  => /\ Len(Answered(SubSeq(log, s + 1, Len(log)))) = 1
                     /\ result.value.token = verification_token

\* C13: a verify() that aborts (with ChallengeTimeout, with an error of
\* the challenge request or of the submission, or with any other
\* exception) leaves the cached token as it was when the call began, and
\* so does a verify() that is still running; after the abort the client
\* accepts a new verify() from the start.
C13_AbortLeavesTokenUnchanged ==
    /\ (op.name = "verify" /\ (pc = "attempt" \/ result.kind = "raise"))
           => verification_token = entry_token
    /\ (op.name = "verify" /\ pc = "done" /\ result.kind = "raise")
           => ENABLED finish
    /\ pc = "idle" => ENABLED verify

C13_Witness ==
    /\ pc = "done"
    /\ op.name = "verify"
    /\ result.kind = "raise"
    /\ result.error = ChallengeTimeout
    /\ entry_token = "tok1"
    /\ verification_token = "tok1"

\* C14: the cached verification token is write-once: when a call began
\* on a client that held a token, the client holds that same token during
\* the call and after it, whatever the operation (another verify()
\* included) and whatever the server answered.
C14_TokenWriteOnce ==
    entry_token # None => verification_token = entry_token

\* the counters below `bound` whose digest starts with the target
Matches(nonce, target, bound) ==
    {c \in 0..(bound - 1) : startswith(solver_digest(nonce, c), target)}

\* C15: for every nonce and target prefix that has a match below the
\* ceiling, the blocking client's solver returns the decimal string of the
\* smallest counter c >= 0 whose digest of nonce + str(c) starts with the
\* target prefix; the result is a function of (nonce, target prefix) alone.
C15_SolverFirstMatch ==
    (pc = "done" /\ op.name = "_solve_challenge" /\ mode = "sync") =>
        LET m == Matches(log[1].nonce, log[1].target, Ceiling) IN
        m # {} =>
            LET c == CHOOSE x \in m : \A y \in m : x <= y IN
            /\ result = Return(ToString(c))
            /\ log[1].tested = c + 1

C15_Witness ==
    /\ pc = "done"
    /\ op.name = "_solve_challenge"
    /\ mode = "sync"
    /\ log[1].nonce = "a"
    /\ log[1].target = "7"
    /\ result = Return("2")

\* the digests repeat with this period in the counter (their two
\* characters have periods 3 and 4)
DigestPeriod == 3 * 4

\* C16: for a challenge that no counter matches, the solver ends with
\* ChallengeTimeout after testing exactly the ceiling number of candidates
\* (counters 0 through ceiling - 1).
C16_SolverGivesUpAtCeiling ==
    (/\ pc = "done" /\ op.name = "_solve_challenge"
     /\ Matches(log[1].nonce, log[1].target, DigestPeriod) = {})
        => /\ result = Raise(ChallengeTimeout)
           /\ log[1].tested = Ceiling

\* the canonical serialization of a body: the empty string for an absent
\* body (None, or an object without members), else the members in key
\* order without whitespace
CanonicalBody(body) ==
    IF body.isnone \/ DOMAIN body.items = {} THEN "" ELSE json_dumps(body.items)

\* C17: two sign_request calls with the same method and path at the same
\* timestamp, on bodies whose canonical serializations differ, carry
\* different signatures (and so different headers).
C17_BodiesSignedApart ==
    (/\ op.name = "sign_request" /\ Len(log) = 2
     /\ log[1].method = log[2].method
     /\ log[1].path = log[2].path
     /\ log[1].t = log[2].t
     /\ CanonicalBody(log[1].body) # CanonicalBody(log[2].body))
        => /\ log[1].signature # log[2].signature
           /\ log[1].header # log[2].header

C17_Witness ==
    /\ op.name = "sign_request"
    /\ Len(log) = 2
    /\ log[1].method = log[2].method
    /\ log[1].path = log[2].path
    /\ log[1].t = log[2].t
    /\ log[1].body = Dict([tier |-> PyStr("standard")])
    /\ log[2].body = Dict([tier |-> PyStr("premium")])
    /\ log[1].signature # log[2].signature

\* the signing keys of the model
SigningKeys == {"seed1"}

\* C18: two sign_request calls with the same method, path and body at
\* different timestamps carry different signatures; every header is
\* "MoltBridge-Ed25519 <agent_id>:<timestamp>:<signature>", and its
\* signature verifies against the signer's public key over the message
\* method:path:timestamp:digest of the canonical body.
C18_TimestampSigned ==
    op.name = "sign_request" =>
        /\ \A i \in 1..Len(log) :
               LET e == log[i]
                   message == e.method \o ":" \o e.path \o ":" \o ToString(e.t)
                                  \o ":" \o sha256_hex(CanonicalBody(e.body))
               IN /\ e.header = "MoltBridge-Ed25519 " \o signer.agent_id \o ":"
                                     \o ToString(e.t) \o ":" \o e.signature
                  /\ Ed25519Verify(public_key_b64(signer), message, e.signature,
                                   SigningKeys)
        /\ (/\ Len(log) = 2
            /\ log[1].method = log[2].method
            /\ log[1].path = log[2].path
            /\ log[1].body = log[2].body
            /\ log[1].t # log[2].t)
               => log[1].signature # log[2].signature

C18_Witness ==
    /\ op.name = "sign_request"
    /\ Len(log) = 2
    /\ log[1].method = log[2].method
    /\ log[1].path = log[2].path
    /\ log[1].body = log[2].body
    /\ log[1].t = 0
    /\ log[2].t = 1
    /\ log[1].signature # log[2].signature

\* C19: construction decides the identity, once.  With no agent id
\* (argument and environment both unset or empty) the client has no signer,
\* even when a signing key is supplied; with an agent id and a seed the
\* signer is the one of that seed; with an agent id and no seed the signer
\* has a freshly generated key; a non-empty argument wins over the
\* environment value; and no later step changes the signer.
C19_IdentityAtConstruction ==
    /\ [](  (pc = "done" /\ op.name = "__init__") =>
             LET c == log[1]
                 has_agent == ~Falsy(c.agent_id) \/ ~Falsy(c.env_agent_id)
                 has_seed == ~Falsy(c.signing_key) \/ ~Falsy(c.env_signing_key)
             IN /\ ~has_agent => signer = NoSigner
                /\ has_agent =>
                       /\ signer.set
                       /\ signer.agent_id = IF ~Falsy(c.agent_id) THEN c.agent_id
                                             ELSE c.env_agent_id
                /\ (has_agent /\ has_seed) =>
                       signer.key = IF ~Falsy(c.signing_key) THEN c.signing_key
                                    ELSE c.env_signing_key
                /\ (has_agent /\ ~has_seed) =>
                       /\ signer.key \in FreshKeys
                       /\ signer.key \notin {c.signing_key, c.env_signing_key}  )
    /\ [][pc # "new" => signer' = signer]_vars

C19_Witness ==
    /\ pc = "done"
    /\ op.name = "__init__"
    /\ log[1].agent_id = "agentA"
    /\ log[1].env_agent_id = "agentE"
    /\ log[1].signing_key = None
    /\ log[1].env_signing_key = "seedE"
    /\ signer = Signer("agentA", "seedE")

\* the operations that call _request with auth=False
NoAuthOpNames == {"health", "pricing", "verify", "register"}

\* C20: every request of health(), pricing(), verify() (challenge and
\* submission) and register() is sent without an Authorization header,
\* also on a client with a signer, and none of them fails with NO_AUTH on
\* a client without one: health(), pricing() and verify() reach the wire
\* there.  Every request of any other operation carries the Authorization
\* header the signer makes for that request's method, path and body (at
\* the time the call began), next to the JSON content type.
C20_AuthHeaderPerOperation ==
    /\ op.name \in NoAuthOpNames =>
           /\ \A i \in 1..Len(log) :
                  log[i].ev = "request" =>
                      /\ log[i].headers.Authorization = None
                      /\ log[i].headers.ContentType = "application/json"
           /\ pc = "attempt" => call.headers.Authorization = None
           /\ pc = "done" =>
                  ~(result.kind = "raise" /\ Typed(result.error)
                                          /\ result.error.code = "NO_AUTH")
           /\ (op.name # "register" /\ ~signer.set) =>
                  pc = "attempt" \/ Len(Requests(log)) >= 1
    /\ op.name \in AuthOpNames =>
           /\ \A i \in 1..Len(log) :
                  log[i].ev = "request" =>
                      /\ signer.set
                      /\ log[i].headers.ContentType = "application/json"
                      /\ \E t \in 0..now :
                             log[i].headers.Authorization =
                                 sign_request(signer, log[i].method, log[i].path,
                                              log[i].json, t)
           /\ pc = "attempt" =>
                  \E t \in 0..now :
                      call.headers.Authorization =
                          sign_request(signer, call.method, call.path, call.body, t)

C20_Witness ==
    /\ pc = "done"
    /\ op.name = "verify"
    /\ op.phase = "submit"
    /\ signer.set
    /\ Len(Requests(log)) = 2
    /\ \A i \in 1..Len(log) :
           log[i].ev = "request" => log[i].headers.Authorization = None

\* a second reachable case of C20: a signed request of another operation
C20_SignedRequestReached ==
    /\ pc = "done"
    /\ op.name = "create_payment_account"
    /\ Len(Requests(log)) = 1
    /\ log[1].headers.Authorization # None

\* the values of the members of a request body
BodyValues(body) == {body.items[k].v : k \in DOMAIN body.items}

\* C21: no request the client sends carries the private seed, as its path,
\* as a header or as a member of its body; the encoded public key is
\* carried only by the body of the registration request (as its pubkey),
\* never by a path, a header or the body of another request.
C21_SeedNeverSent ==
    signer.set =>
        /\ \A i \in 1..Len(log) :
               log[i].ev = "request" =>
                   LET e == log[i]
                       outside == {e.path, e.headers.Authorization,
                                   e.headers.ContentType}
                   IN /\ seed_hex(signer) \notin outside \cup BodyValues(e.json)
                      /\ public_key_b64(signer) \notin outside
                      /\ public_key_b64(signer) \in BodyValues(e.json) =>
                             /\ op.name = "register"
                             /\ e.path = "/register"
                             /\ \A k \in DOMAIN e.json.items :
                                    e.json.items[k].v = public_key_b64(signer)
                                        => k = "pubkey"
        /\ pc = "attempt" =>
               /\ seed_hex(signer) \notin BodyValues(call.body)
                                          \cup {call.path, call.headers.Authorization}
               /\ public_key_b64(signer) \in BodyValues(call.body)
                      => op.name = "register"

C21_Witness ==
    /\ pc = "done"
    /\ op.name = "register"
    /\ signer.set
    /\ Len(Requests(log)) >= 1
    /\ log[1].json.items.pubkey = PyStr(public_key_b64(signer))

\* C22: a client owns exactly one connection pool, created by its
\* construction; a construction that fails has created none; inside a
\* with block the pool is open, and once the block is left, at its end or
\* by an exception of its body, the pool is closed.
C22_OnePoolClosedOnExit ==
    /\ http_client.created <= 1
    /\ pc \in {"new", "failed"} => http_client = NoClient
    /\ pc \notin {"new", "failed"} => http_client.created = 1
    /\ (pc = "done" /\ op.name = "__init__") => http_client.open
    /\ scope = "inside" => http_client.open
    /\ scope = "left" => ~http_client.open

C22_Witness ==
    /\ scope = "left"
    /\ result.kind = "raise"
    /\ ~http_client.open
    /\ http_client.created = 1

\* a second reachable case of C22: a construction failed on its seed
C22_FailedConstructionReached ==
    /\ pc = "failed"
    /\ result.kind = "raise"
    /\ http_client = NoClient

\* C23: the blocking and the non-blocking solver are equivalent: on the
\* same nonce and target prefix both find a proof or both give up, and the
\* proof either returns is the one the other returns, the decimal string of
\* the counter of the first match.
C23_SolversEquivalent ==
    (pc = "done" /\ op.name = "_solve_challenge") =>
        LET other == IF mode = "sync" THEN "async" ELSE "sync"
            there == solve_challenge(other, log[1].nonce, log[1].target)
        IN /\ (result.kind = "return") = there.found
           /\ result.kind = "return" =>
                  /\ result.value = there.proof
                  /\ result.value = ToString(log[1].tested - 1)

\* C24: in the verification flow the two clients are interchangeable: on
\* the reply this client got to its challenge request, the other client
\* would go the same way (return, raise the same kind of error, or submit),
\* would run the solver on the target prefix this one ran it on, and would
\* submit the body this one submits.
C24_DropInReplacement ==
    (op.name = "verify" /\ challenge_reply.isobj) =>
        LET other == IF mode = "sync" THEN "async" ELSE "sync"
            there == verify_challenge(other, challenge_reply)
            solved_there == verify_solved(other, challenge_reply)
        IN /\ Len(Solves(log)) = Len(solved_there)
           /\ Solves(log) # <<>> => Solves(log)[1].target = solved_there[1].target
           /\ (op.phase = "submit") = (there.kind = "request")
           /\ op.phase = "submit" =>
                  /\ call.body = there.body
                  /\ \A i \in (SolvedAt(log) + 1)..Len(log) :
                         log[i].ev = "request" => log[i].json = there.body
           /\ (op.phase = "challenge" /\ pc = "done") =>
                  /\ result.kind = there.kind
                  /\ result.kind = "return" => result = there
                  /\ result.kind = "raise" => result.error.cls = there.error.cls

\* C27: a cached token comes from a submission that reported
\* verified=true: when a verify() has just completed its submission and
\* the client holds a token, that submission's reply said verified, and
\* the token held is the one of that reply.
C27_TokenOnlyFromVerified ==
    (/\ pc = "done" /\ op.name = "verify" /\ op.phase = "submit"
     /\ result.kind = "return"
     /\ verification_token # None)
        => /\ result.value.verified
           /\ ReportsVerified(lastOutcome)
           /\ verification_token = lastOutcome.response.json.obj.token

\* C28: in an authenticated transport call the Authorization header is
\* there before the first attempt, signed with the clock of then, and
\* every attempt, also one made after backoff delays and a later clock,
\* sends that same header.
C28_HeaderSignedOnce ==
    (op.name = "_request" /\ call.auth /\ signer.set /\ call.retries >= 1) =>
        /\ \E t \in 0..now :
               call.headers.Authorization =
                   sign_request(signer, call.method, call.path, call.body, t)
        /\ (pc = "attempt" /\ log = <<>> /\ now = 0) =>
               call.headers.Authorization =
                   sign_request(signer, call.method, call.path, call.body, 0)
        /\ \A i \in 1..Len(log) :
               log[i].ev = "request" => log[i].headers = call.headers

C28_Witness ==
    /\ op.name = "_request"
    /\ call.auth
    /\ signer.set
    /\ now = 1
    /\ Len(Requests(log)) = 3
    /\ \A i \in 1..Len(log) :
           log[i].ev = "request" =>
               log[i].headers.Authorization =
                   sign_request(signer, call.method, call.path, call.body, 0)

\* C29: in an authenticated request the signed digest is the digest of
\* what is on the wire: the digest of the empty string exactly when no JSON
\* body is sent, which is when the body is None or an empty object; a
\* non-empty body is sent as it is and signed over its serialization.
C29_SignedAsSent ==
    (op.name = "_request" /\ call.auth /\ signer.set) =>
        \A i \in 1..Len(log) :
            log[i].ev = "request" =>
                LET e == log[i]
                    wire == IF e.json.isnone THEN "" ELSE json_dumps(e.json.items)
                IN /\ \E t \in 0..now :
                          e.headers.Authorization =
                              "MoltBridge-Ed25519 " \o signer.agent_id \o ":"
                                  \o ToString(t) \o ":"
                                  \o Ed25519Sign(signer.key,
                                         e.method \o ":" \o e.path \o ":"
                                             \o ToString(t) \o ":" \o sha256_hex(wire))
                   /\ e.json.isnone = (call.body.isnone \/ DOMAIN call.body.items = {})
                   /\ ~e.json.isnone => e.json = call.body

C29_Witness ==
    /\ op.name = "_request"
    /\ call.auth
    /\ signer.set
    /\ call.body = EmptyBody
    /\ Len(Requests(log)) >= 1
    /\ log[1].json = NoneBody

\* a second reachable case of C29: a non-empty body, signed and sent
C29_BodySentReached ==
    /\ op.name = "_request"
    /\ call.auth
    /\ signer.set
    /\ Len(Requests(log)) >= 1
    /\ log[1].json = Dict([tier |-> PyStr("standard")])

\* C30 as stated: a transport call with attempt limit n <= 0 sends no
\* request and sleeps no backoff delay, never returns a payload, and raises
\* a MoltBridgeError with status_code 0 and no machine code.
C30_NoAttemptsAsStated ==
    (pc = "done" /\ op.name = "_request" /\ call.retries <= 0) =>
        /\ log = <<>>
        /\ result.kind = "raise"
        /\ result.error.cls = "MoltBridgeError"
        /\ result.error.status_code = 0
        /\ result.error.code = None

\* C30, amended: a transport call with attempt limit n <= 0 sends no
\* request and sleeps no backoff delay, never returns a payload, and raises
\* a MoltBridgeError with status_code 0; the error has no machine code when
\* the call needs no signer or the client has one, and the code NO_AUTH
\* when auth is required and no signer is configured.
C30_NoAttempts ==
    (pc = "done" /\ op.name = "_request" /\ call.retries <= 0) =>
        /\ log = <<>>
        /\ result.kind = "raise"
        /\ result.error.cls = "MoltBridgeError"
        /\ result.error.status_code = 0
        /\ result.error.code = IF call.auth /\ ~signer.set THEN "NO_AUTH" ELSE None
        /\ ~(call.auth /\ ~signer.set) =>
               result.error.message = "Unexpected retry exhaustion"

C30_Witness ==
    /\ pc = "done"
    /\ op.name = "_request"
    /\ call.retries = 0
    /\ call.auth
    /\ signer.set
    /\ result.kind = "raise"
    /\ result.error.code = None

\* the outcome a task's last step computes from the task's own locals
\* and the answer to its own last request: what the call yields run alone
OwnResult(task) ==
    IF task.lastOutcome = NoOutcome
    THEN register_precondition(signer, task.entry_token)
    ELSE LET step == request_attempt(task.call, task.lastOutcome) IN
         IF step.kind = "sleep" THEN Raise(RetryExhaustion)
         ELSE IF step.kind = "raise" THEN step
         ELSE IF task.op.name = "verify" /\ task.op.phase = "challenge"
         THEN verify_challenge(mode, step.value)
         ELSE IF task.op.name = "verify"
         THEN verify_submit(step.value, task.entry_token).result
         ELSE Return(step.value)

Independent(task) ==
    /\ task.op.name = "register" =>
           IF register_precondition(signer, task.entry_token).kind = "raise"
           THEN task.pc = "done" /\ task.log = <<>>
           ELSE /\ task.call.body = register_body(signer, task.entry_token)
                /\ \A i \in 1..Len(task.log) :
                       task.log[i].ev = "request" =>
                           task.log[i].json = register_body(signer, task.entry_token)
    /\ task.pc = "done" => task.result = OwnResult(task)

\* C25: with two calls in flight on one non-blocking client, in every
\* interleaving of their suspension points, each call ends with the result
\* its own starting state and its own server answers give, and register()
\* sends the token that was cached when it started, whatever the other
\* call has done to the client in between.
C25_ConcurrentCallsIndependent ==
    (mode = "async" /\ parked.pc # "absent") =>
        Independent(Running) /\ Independent(parked)

C25_Witness ==
    /\ mode = "async"
    /\ op.name = "register"
    /\ pc = "done"
    /\ result.kind = "return"
    /\ Len(Requests(log)) >= 2
    /\ entry_token = "tok1"
    /\ verification_token = "tok2"
    /\ parked.op.name = "verify"
    /\ parked.pc = "done"
    /\ parked.result.kind = "return"
    /\ parked.result.value.token = "tok2"

\* a task that is suspended with a challenge reply it has not solved
HoldsChallenge(task) ==
    /\ task.op.name = "verify"
    /\ task.op.phase = "challenge"
    /\ task.pc = "attempt"
    /\ task.challenge_reply.isobj

\* a verify() at its submission has solved right after the reply to the
\* challenge request, before any submission request
SolvedOnArrival(task) ==
    (task.op.name = "verify" /\ task.op.phase = "submit") =>
        LET at == SolvedAt(task.log) IN
        /\ at > 1
        /\ task.log[at - 1].ev = "request"
        /\ task.log[at - 1].outcome = "response"
        /\ \A i \in 1..(at - 1) :
               task.log[i].ev = "request" => task.log[i].json = NoneBody
        /\ \A i \in (at + 1)..Len(task.log) :
               task.log[i].ev = "request" => task.log[i].json # NoneBody

\* C26: on a non-blocking client with two tasks, no task is ever
\* suspended between the arrival of the challenge reply and the start of
\* the proof submission: the step that takes the reply runs the solver and
\* reaches the submission while the other task stands still; a task that
\* waits for a request or a backoff delay can be overtaken by the other.
C26_SolverUninterrupted ==
    /\ []((mode = "async" /\ parked.pc # "absent") =>
            /\ ~HoldsChallenge(Running)
            /\ ~HoldsChallenge(parked)
            /\ SolvedOnArrival(Running)
            /\ SolvedOnArrival(parked)
            /\ pc = "attempt" => ENABLED switch)
    /\ [][(mode = "async" /\ parked.pc # "absent" /\ pc = "attempt"
              /\ op.name = "verify" /\ op.phase = "challenge")
           => \/ parked' = Running /\ Running' = parked
              \/ /\ parked' = parked
                 /\ IssuesChallenge(challenge_reply') =>
                        /\ Len(Solves(log')) = 1
                        /\ \/ pc' = "done"
                           \/ pc' = "attempt" /\ op'.phase = "submit"]_vars

C26_Witness ==
    /\ mode = "async"
    /\ parked.op.name = "verify"
    /\ parked.op.phase = "submit"
    /\ parked.pc = "attempt"
    /\ Len(Solves(parked.log)) = 1
    /\ op.name = "verify"
    /\ op.phase = "challenge"
    /\ pc = "attempt"
    /\ Len(log) >= 2

====
